---- MODULE Spec2Model ----
(***************************************************************************)
(* Model of the code review assistant's analysis tools                     *)
(* (src/code_review_assistant/tools.py): the structural extractor, the     *)
(* naming checker, the style scorer and the two public tool operations     *)
(* analyze_code_structure and check_code_style.                            *)
(*                                                                         *)
(* Strings are sequences of one-character strings, so that slicing,        *)
(* splitting and case conversion are computed rather than assumed.         *)
(***************************************************************************)
EXTENDS Integers, Sequences, FiniteSets, TLC

VARIABLES
    issues,    \* SpecScore: the violation list handed to _calculate_style_score
    score,     \* SpecScore: <<>> before scoring, <<n>> after
    prevScore, \* SpecScore: the score before the last violation was added
    added,     \* SpecScore: number of violations added after the first scoring
    tree,      \* SpecExtract, SpecNaming: the parsed syntax tree (ast.parse's result)
    analysis,  \* SpecExtract: <<>> or <<the dict _extract_code_structure returned>>
    naming,    \* SpecNaming: <<>> or <<the list _check_naming_conventions returned>>
    pc,         \* per worker: where its check_code_style call stands
    code,       \* per worker: the text being checked
    tmp_path,   \* per worker: <<>> or <<the temporary file's id>>
    old_stdout, \* per worker: the stream saved by "old_stdout = sys.stdout"
    captured,   \* per worker: the id of its StringIO capture buffer
    emitted,    \* per worker: diagnostics the linter has printed so far
    outcome,    \* per worker: <<>>, or <<the dict returned by _perform_style_check, or Raised>>
    fault,      \* per worker: the step of the current or last call that raised
    sys_stdout, \* the process-wide sys.stdout: 0 is the real stream, n > 0 a StringIO
    buffers,    \* contents of the StringIO buffers that are still read by a call
    files,      \* the temporary files that exist
    state,      \* tool_context.state
    ret,        \* what the last public operation returned
    last,       \* the last public operation that returned, and its input
    calls       \* public operations started so far

scoreVars == <<issues, score, prevScore, added>>
treeVars == <<tree, analysis, naming>>
workerVars == <<pc, code, tmp_path, old_stdout, captured, emitted, outcome, fault>>
sessionVars == <<workerVars, sys_stdout, buffers, files, state, ret, last, calls>>
harnessVars == <<scoreVars, treeVars>>
vars == <<harnessVars, sessionVars>>

(***************************************************************************)
(* Bounds of the model.                                                    *)
(***************************************************************************)
MaxRun == 11      \* longest run of one violation code in a scored list
MaxAdded == 1     \* violations appended after the first scoring
MaxNodes == 3     \* statements of a tree handed to the extractor
MaxAliases == 2   \* names listed by one import statement
MaxNamedNodes == 2 \* statements of a tree handed to the naming checker
MaxNameLen == 2   \* characters of a function or class name
MaxCalls == 2     \* public operations started in one session
MaxLint == 15     \* diagnostics the linter reports for one text

(***************************************************************************)
(* Generic helpers.                                                        *)
(***************************************************************************)
None == <<>>
Some(v) == <<v>>

Min(a, b) == IF a < b THEN a ELSE b
Max(a, b) == IF a > b THEN a ELSE b

\* Python's seq[:n]
Take(s, n) == SubSeq(s, 1, Min(n, Len(s)))

\* n copies of x
Repeat(x, n) == [i \in 1..n |-> x]

(***************************************************************************)
(* _calculate_style_score                                                  *)
(***************************************************************************)
\* the weights dict, keyed by the two-character prefix
weights ==
    [p \in { <<"E","1">>, <<"E","2">>, <<"E","3">>, <<"E","4">>, <<"E","5">>,
             <<"E","7">>, <<"E","9">>, <<"W","2">>, <<"W","3">>, <<"W","5">>,
             <<"N","8">> } |->
        CASE p = <<"E","1">> -> 10
          [] p = <<"E","2">> -> 3
          [] p = <<"E","3">> -> 5
          [] p = <<"E","4">> -> 8
          [] p = <<"E","5">> -> 5
          [] p = <<"E","7">> -> 7
          [] p = <<"E","9">> -> 10
          [] p = <<"W","2">> -> 2
          [] p = <<"W","3">> -> 2
          [] p = <<"W","5">> -> 3
          [] p = <<"N","8">> -> 7]

\* weights.get(code_prefix, 3)
DefaultWeight == 3
WeightsGet(p) == IF p \in DOMAIN weights THEN weights[p] ELSE DefaultWeight

\* issue['code'][:2] if len(issue['code']) >= 2 else 'E2'
CodePrefix(cd) == IF Len(cd) >= 2 THEN Take(cd, 2) ELSE <<"E","2">>

RECURSIVE TotalDeduction(_)
TotalDeduction(iss) ==
    IF iss = <<>> THEN 0
    ELSE WeightsGet(CodePrefix(Head(iss).code)) + TotalDeduction(Tail(iss))

ScoreCap == 100

\* no clipping at either end
ClipScoreUnclipped(total) == ScoreCap - total

ClipScore(total) == Max(0, ScoreCap - Min(total, ScoreCap))

_calculate_style_score(iss) ==
    IF iss = <<>> THEN ScoreCap ELSE ClipScore(TotalDeduction(iss))

(***************************************************************************)
(* Syntax trees.  A tree is the sequence of its statements in source       *)
(* order (pre-order); statement i starts on line i and names its parent    *)
(* statement (0 is the Module node).  Only definitions and "If" (standing  *)
(* for any other compound statement) have a body.                          *)
(***************************************************************************)
FunctionDef == "FunctionDef"
AsyncFunctionDef == "AsyncFunctionDef"
ClassDef == "ClassDef"
Import == "Import"
ImportFrom == "ImportFrom"
If == "If"
Module == "Module"

DefKinds == {FunctionDef, AsyncFunctionDef, ClassDef}
BodyKinds == DefKinds \cup {If}

Node(kind, parent, name, nnames) ==
    [kind |-> kind, parent |-> parent, name |-> name, nnames |-> nnames]

\* the statements a tree may be continued with after node `last` under parent p
NodeVariants(p, names, counts) ==
    { Node(k, p, nm, 0) : k \in DefKinds, nm \in names }
    \cup { Node(k, p, <<>>, c) : k \in {Import, ImportFrom}, c \in counts }
    \cup { Node(If, p, <<>>, 0) }

RECURSIVE AncestorsOrSelf(_, _)
AncestorsOrSelf(t, i) ==
    IF i = 0 THEN {0} ELSE {i} \cup AncestorsOrSelf(t, t[i].parent)

\* where the next statement in source order can be attached
OpenBodies(t) ==
    { p \in AncestorsOrSelf(t, Len(t)) : p = 0 \/ t[p].kind \in BodyKinds }

RECURSIVE TreesOf(_, _, _)
TreesOf(n, names, counts) ==
    IF n = 0 THEN { <<>> }
    ELSE LET smaller == TreesOf(n - 1, names, counts)
         IN  smaller \cup
             UNION { { Append(t, nd) : nd \in UNION { NodeVariants(p, names, counts) :
                                                        p \in OpenBodies(t) } } :
                     t \in { s \in smaller : Len(s) = n - 1 } }

\* isinstance(node, cls): none of the modelled ast classes derives from another
IsInstance(kind, cls) == kind = cls

RECURSIVE SeqOfSet(_)
\* the elements of a set of integers in increasing order
SeqOfSet(S) ==
    IF S = {} THEN <<>>
    ELSE LET m == CHOOSE x \in S : \A y \in S : x <= y
         IN  <<m>> \o SeqOfSet(S \ {m})

\* ast.iter_child_nodes restricted to statements: the body, in source order
ChildNodes(t, p) == SeqOfSet({ i \in 1..Len(t) : t[i].parent = p })

RECURSIVE WalkDfs(_, _)
\* a depth-first (source order) traversal, which ast.walk is not
WalkDfs(t, todo) ==
    IF todo = <<>> THEN <<>>
    ELSE <<Head(todo)>> \o WalkDfs(t, ChildNodes(t, Head(todo)) \o Tail(todo))

RECURSIVE Walk(_, _)
\* ast.walk: todo = deque([node]); popleft, extend with the children, yield
Walk(t, todo) ==
    IF todo = <<>> THEN <<>>
    ELSE <<Head(todo)>> \o Walk(t, Tail(todo) \o ChildNodes(t, Head(todo)))

\* the statements of the tree in the order ast.walk(tree) yields them
WalkOrder(t) == SelectSeq(Walk(t, <<0>>), LAMBDA i : i # 0)

(***************************************************************************)
(* _extract_code_structure                                                 *)
(***************************************************************************)
\* func_info (name, lineno, is_async; args, docstring, decorators left out)
FuncInfo(t, i) ==
    [name |-> t[i].name, lineno |-> i,
     is_async |-> IsInstance(t[i].kind, AsyncFunctionDef)]

\* class_info with its direct methods
ClassInfo(t, i) ==
    [name |-> t[i].name, lineno |-> i,
     methods |-> [k \in 1..Len(SelectSeq(ChildNodes(t, i),
                                LAMBDA c : IsInstance(t[c].kind, FunctionDef))) |->
                    t[SelectSeq(ChildNodes(t, i),
                                LAMBDA c : IsInstance(t[c].kind, FunctionDef))[k]].name]]

\* the names an import statement lists: <<line, k>> is its k-th name
AliasNames(t, i) == [k \in 1..t[i].nnames |-> <<i, k>>]

ImportInfo(type, i, names) == [type |-> type, lineno |-> i, names |-> names]

\* one entry per statement, for both kinds of import
ImportEntriesPerStatement(t, i) ==
    IF IsInstance(t[i].kind, Import)
    THEN << ImportInfo("import", i, AliasNames(t, i)) >>
    ELSE << ImportInfo("from_import", i, AliasNames(t, i)) >>

\* the entries appended for one Import or ImportFrom node
ImportEntries(t, i) ==
    IF IsInstance(t[i].kind, Import)
    THEN [k \in 1..t[i].nnames |-> ImportInfo("import", i, <<AliasNames(t, i)[k]>>)]
    ELSE << ImportInfo("from_import", i, AliasNames(t, i)) >>

RECURSIVE CollectImports(_, _)
CollectImports(t, order) ==
    IF order = <<>> THEN <<>>
    ELSE LET i == Head(order)
         IN  (IF IsInstance(t[i].kind, Import) \/ IsInstance(t[i].kind, ImportFrom)
              THEN ImportEntries(t, i) ELSE <<>>)
             \o CollectImports(t, Tail(order))

_extract_code_structure(t) ==
    LET order == WalkOrder(t)
        fnodes == SelectSeq(order, LAMBDA i : IsInstance(t[i].kind, FunctionDef))
        cnodes == SelectSeq(order, LAMBDA i : IsInstance(t[i].kind, ClassDef))
        functions == [k \in 1..Len(fnodes) |-> FuncInfo(t, fnodes[k])]
        classes == [k \in 1..Len(cnodes) |-> ClassInfo(t, cnodes[k])]
        imports == CollectImports(t, order)
    IN  [functions |-> functions,
         classes |-> classes,
         imports |-> imports,
         metrics |-> [function_count |-> Len(functions),
                      class_count |-> Len(classes),
                      import_count |-> Len(imports)]]

(***************************************************************************)
(* _check_naming_conventions                                               *)
(***************************************************************************)
UpperChars == {"A"}
LowerChar(ch) == IF ch = "A" THEN "a" ELSE ch

\* str.lower()
Lower(name) == [k \in 1..Len(name) |-> LowerChar(name[k])]
\* str.startswith('_')
StartsWithUnderscore(name) == Len(name) >= 1 /\ name[1] = "_"
\* name[0].isupper()
FirstIsUpper(name) == name[1] \in UpperChars
\* '_' in name
HasUnderscore(name) == \E k \in 1..Len(name) : name[k] = "_"

N802 == <<"N","8","0","2">>
N801 == <<"N","8","0","1">>

NamingIssue(i, cd, name) ==
    [line |-> i, column |-> 0, code |-> cd, message |-> cd \o <<" ">> \o name]

RECURSIVE CollectNaming(_, _)
CollectNaming(t, order) ==
    IF order = <<>> THEN <<>>
    ELSE LET i == Head(order)
             nm == t[i].name
         IN  (IF IsInstance(t[i].kind, FunctionDef)
              THEN IF ~StartsWithUnderscore(nm) /\ nm # Lower(nm)
                   THEN <<NamingIssue(i, N802, nm)>> ELSE <<>>
              ELSE IF IsInstance(t[i].kind, ClassDef)
                   THEN IF ~FirstIsUpper(nm) \/ HasUnderscore(nm)
                        THEN <<NamingIssue(i, N801, nm)>> ELSE <<>>
                   ELSE <<>>)
             \o CollectNaming(t, Tail(order))

_check_naming_conventions(t) == CollectNaming(t, WalkOrder(t))

(***************************************************************************)
(* String operations used by _perform_style_check.                         *)
(***************************************************************************)
NL == "\n"
Whitespace == {" ", NL}
DigitChars == <<"0", "1", "2", "3", "4", "5", "6", "7", "8", "9">>

RECURSIVE Digits(_)
\* '%d' % n
Digits(n) == IF n < 10 THEN <<DigitChars[n + 1]>>
             ELSE Digits(n \div 10) \o <<DigitChars[(n % 10) + 1]>>

RECURSIVE LStrip(_)
LStrip(s) == IF s # <<>> /\ Head(s) \in Whitespace THEN LStrip(Tail(s)) ELSE s

RECURSIVE RStrip(_)
RStrip(s) == IF s # <<>> /\ s[Len(s)] \in Whitespace
             THEN RStrip(SubSeq(s, 1, Len(s) - 1)) ELSE s

\* str.strip()
Strip(s) == RStrip(LStrip(s))

\* position of the first occurrence of character sep in s, 0 if none
Find(s, sep) ==
    IF \E k \in 1..Len(s) : s[k] = sep
    THEN CHOOSE k \in 1..Len(s) : s[k] = sep /\ \A j \in 1..(k - 1) : s[j] # sep
    ELSE 0

RECURSIVE Split(_, _, _)
\* str.split(sep, maxsplit) for a one-character sep
Split(s, sep, maxsplit) ==
    IF maxsplit = 0 \/ Find(s, sep) = 0 THEN <<s>>
    ELSE <<SubSeq(s, 1, Find(s, sep) - 1)>>
         \o Split(SubSeq(s, Find(s, sep) + 1, Len(s)), sep, maxsplit - 1)

\* str.split('\n'): no limit on the number of splits
SplitLines(s) == Split(s, NL, Len(s))

RECURSIVE FirstWord(_)
\* s.split()[0] for an s that holds a non-whitespace character
FirstWord(s) ==
    LET t == LStrip(s)
    IN  IF t = <<>> \/ Head(t) \in Whitespace THEN <<>>
        ELSE <<Head(t)>> \o (IF Len(t) > 1 /\ t[2] \notin Whitespace
                             THEN FirstWord(Tail(t)) ELSE <<>>)

\* s.split() is empty, so that s.split()[0] raises IndexError
NoWords(s) == LStrip(s) = <<>>

DigitValue(ch) == CHOOSE d \in 0..9 : DigitChars[d + 1] = ch

\* int(s) raises ValueError
IntFails(s) ==
    LET t == Strip(s)
    IN  t = <<>> \/ \E k \in 1..Len(t) : \A d \in 1..10 : DigitChars[d] # t[k]

RECURSIVE IntOfDigits(_)
IntOfDigits(t) ==
    IF t = <<>> THEN 0
    ELSE 10 * IntOfDigits(SubSeq(t, 1, Len(t) - 1)) + DigitValue(t[Len(t)])

\* int(s)
Int_(s) == IntOfDigits(Strip(s))

(***************************************************************************)
(* The linter's report and its translation into violations.                *)
(***************************************************************************)
\* the name of temporary file f; NamedTemporaryFile picks a fresh one per call
PathOf(f) == <<"/", "t">> \o Digits(f)

\* one line of the linter's report: '%(path)s:%(row)d:%(col)d: %(code)s %(text)s'
FormatDiag(path, d) ==
    path \o <<":">> \o Digits(d.row) \o <<":">> \o Digits(d.col) \o <<":", " ">>
         \o d.code \o <<" ">> \o d.text

\* the violation read from one line of the captured output, <<>> if it is skipped
ParseLine(line) ==
    IF line = <<>> \/ Find(line, ":") = 0 THEN <<>>
    ELSE LET parts == Split(line, ":", 4)
         IN  IF Len(parts) < 4 THEN <<>>
             ELSE IF IntFails(parts[2]) \/ IntFails(parts[3]) \/ NoWords(parts[4])
                  THEN <<>>
                  ELSE << [line |-> Int_(parts[2]),
                           column |-> Int_(parts[3]),
                           code |-> FirstWord(parts[4]),
                           message |-> Strip(parts[4])] >>

RECURSIVE ParseLines(_)
ParseLines(lines) ==
    IF lines = <<>> THEN <<>> ELSE ParseLine(Head(lines)) \o ParseLines(Tail(lines))

\* for line in output.strip().split('\n'): ...
ParseOutput(output) == ParseLines(SplitLines(Strip(output)))

TruncLimit == 10

\* the dict returned with issue_count taken after the truncation
StyleResultCountTruncated(iss) ==
    [status |-> "success",
     score |-> _calculate_style_score(iss),
     issue_count |-> Len(Take(iss, TruncLimit)),
     issues |-> Take(iss, TruncLimit)]

\* the dict _perform_style_check returns (summary, derived from the rest, left out)
StyleResult(iss) ==
    [status |-> "success",
     score |-> _calculate_style_score(iss),
     issue_count |-> Len(iss),
     issues |-> Take(iss, TruncLimit)]

\* _perform_style_check left by an exception instead of a return
Raised == [status |-> "raised", score |-> 0, issue_count |-> 0, issues |-> <<>>]

(***************************************************************************)
(* Texts.  A text is described by what the collaborators make of it: does  *)
(* it encode (tmp.write), what ast.parse returns or raises, what the       *)
(* linter reports, and its number of lines.                                *)
(***************************************************************************)
ParseOk(t) == [kind |-> "ok", tree |-> t, lineno |-> 0, offset |-> 0]
ParseSyntaxError(l, o) == [kind |-> "SyntaxError", tree |-> <<>>, lineno |-> l, offset |-> o]
ParseValueError == [kind |-> "ValueError", tree |-> <<>>, lineno |-> 0, offset |-> 0]

Text(empty, enc, nlines, parse, lint) ==
    [empty |-> empty, enc |-> enc, nlines |-> nlines, parse |-> parse, lint |-> lint]

\* the empty string
EmptyText == Text(TRUE, TRUE, 0, ParseOk(<<>>), <<>>)

\* ast.parse(code)
Parse(c) == c.parse

Diag(row, col, c, text) == [row |-> row, col |-> col, code |-> c, text |-> text]

(***************************************************************************)
(* The session: tool_context.state, the worker calls, sys.stdout and the   *)
(* temporary files.                                                        *)
(***************************************************************************)
Workers == {1, 2}

StateKeys == {"CODE_TO_REVIEW", "CODE_ANALYSIS", "CODE_LINE_COUNT", "SYNTAX_ERROR",
              "STYLE_SCORE", "STYLE_ISSUES", "STYLE_ISSUE_COUNT"}

\* a returned dict: absent keys are <<>>
Ret(status, error_type, message, line, offset, an, sc, issue_count, iss) ==
    [status |-> status, error_type |-> error_type, message |-> message,
     line |-> line, offset |-> offset, analysis |-> an, score |-> sc,
     issue_count |-> issue_count, issues |-> iss]

NoRet == Ret("", None, None, None, None, None, None, None, None)
NoLast == [op |-> "", code |-> EmptyText, n |-> 0, worker |-> 0]

RealStdout == 0

SessionInit ==
    /\ pc = [w \in Workers |-> "idle"]
    /\ code = [w \in Workers |-> EmptyText]
    /\ tmp_path = [w \in Workers |-> None]
    /\ old_stdout = [w \in Workers |-> RealStdout]
    /\ captured = [w \in Workers |-> RealStdout]
    /\ emitted = [w \in Workers |-> 0]
    /\ outcome = [w \in Workers |-> None]
    /\ fault = [w \in Workers |-> "none"]
    /\ sys_stdout = RealStdout
    /\ buffers = [b \in {} |-> <<>>]
    /\ files = {}
    /\ state = [k \in StateKeys |-> None]
    /\ ret = NoRet
    /\ last = NoLast
    /\ calls = 0

\* the smallest positive number not in S: the identity of a new object
Fresh(S) == CHOOSE n \in 1..(Cardinality(S) + 1) : n \notin S /\ \A m \in 1..(n - 1) : m \in S

StreamsInUse ==
    {sys_stdout} \cup { old_stdout[w] : w \in Workers } \cup { captured[w] : w \in Workers }
                 \cup DOMAIN buffers

\* file.write(text) for the stream installed as sys.stdout; the contents of a
\* buffer that no call reads any more are not kept
WriteStdout(text) ==
    IF sys_stdout \in DOMAIN buffers
    THEN [buffers EXCEPT ![sys_stdout] = @ \o text]
    ELSE buffers

Returned(op, c, w) == [op |-> op, code |-> c, n |-> last.n + 1, worker |-> w]

\* the locals of worker w's call are gone once it has returned
ResetLocals(w) ==
    /\ code' = [code EXCEPT ![w] = EmptyText]
    /\ tmp_path' = [tmp_path EXCEPT ![w] = None]
    /\ old_stdout' = [old_stdout EXCEPT ![w] = RealStdout]
    /\ captured' = [captured EXCEPT ![w] = RealStdout]
    /\ emitted' = [emitted EXCEPT ![w] = 0]
    /\ outcome' = [outcome EXCEPT ![w] = None]

(***************************************************************************)
(* analyze_code_structure                                                  *)
(***************************************************************************)
AnalysisFor(c) == _extract_code_structure(Parse(c).tree)

\* the state written after a successful analysis
AnalyzeSuccessState(st, c) ==
    [st EXCEPT !["CODE_TO_REVIEW"] = Some(c),
               !["CODE_ANALYSIS"] = Some(AnalysisFor(c)),
               !["CODE_LINE_COUNT"] = Some(c.nlines)]

\* the SyntaxError handler also storing an analysis of nothing
AnalyzeSyntaxErrorStateWithAnalysis(st, c) ==
    [st EXCEPT !["CODE_TO_REVIEW"] = Some(c),
               !["SYNTAX_ERROR"] = Some("Syntax error"),
               !["CODE_ANALYSIS"] = Some(_extract_code_structure(<<>>)),
               !["CODE_LINE_COUNT"] = Some(c.nlines)]

\* the state written by the SyntaxError handler
AnalyzeSyntaxErrorState(st, c) ==
    [st EXCEPT !["CODE_TO_REVIEW"] = Some(c),
               !["SYNTAX_ERROR"] = Some("Syntax error")]

AnalyzeCodeStructure(c) ==
    /\ \A w \in Workers : pc[w] = "idle"
    /\ calls < MaxCalls
    /\ calls' = calls + 1
    /\ last' = Returned("analyze_code_structure", c, 0)
    /\ IF c.empty
       THEN /\ ret' = Ret("error", None, Some("No code provided or invalid input"),
                          None, None, None, None, None, None)
            /\ UNCHANGED state
       ELSE CASE Parse(c).kind = "ok" ->
                   /\ state' = AnalyzeSuccessState(state, c)
                   /\ ret' = Ret("success", None, None, None, None,
                                 Some(AnalysisFor(c)), None, None, None)
              [] Parse(c).kind = "SyntaxError" ->
                   /\ state' = AnalyzeSyntaxErrorState(state, c)
                   /\ ret' = Ret("error", Some("syntax"), Some("Syntax error"),
                                 Some(Parse(c).lineno), Some(Parse(c).offset),
                                 None, None, None, None)
              [] OTHER ->
                   /\ UNCHANGED state
                   /\ ret' = Ret("error", Some("parse"), Some("Analysis failed"),
                                 None, None, None, None, None, None)
    /\ UNCHANGED <<workerVars, sys_stdout, buffers, files>>
    /\ UNCHANGED harnessVars

(***************************************************************************)
(* check_code_style and _perform_style_check, step by step                 *)
(***************************************************************************)
\* check_code_style up to the hand-over to the worker thread
CheckCodeStyle(w, c) ==
    /\ pc[w] = "idle"
    /\ calls < MaxCalls
    /\ calls' = calls + 1
    /\ LET given == IF c.empty /\ state["CODE_TO_REVIEW"] # None
                    THEN state["CODE_TO_REVIEW"][1] ELSE c
       IN  IF given.empty
           THEN /\ ret' = Ret("error", None, Some("No code provided or found in state"),
                              None, None, None, None, None, None)
                /\ last' = Returned("check_code_style", given, w)
                /\ fault' = [fault EXCEPT ![w] = "none"]
                /\ UNCHANGED <<pc, code>>
           ELSE /\ pc' = [pc EXCEPT ![w] = "tmpfile"]
                /\ code' = [code EXCEPT ![w] = given]
                /\ fault' = [fault EXCEPT ![w] = "none"]
                /\ UNCHANGED <<ret, last>>
    /\ UNCHANGED <<tmp_path, old_stdout, captured, emitted, outcome,
                   sys_stdout, buffers, files, state>>
    /\ UNCHANGED harnessVars

\* with NamedTemporaryFile(delete=False) as tmp: tmp.write(code); tmp_path = tmp.name
CreateTempFile(w) ==
    /\ pc[w] = "tmpfile"
    /\ LET f == Fresh(files)
       IN  /\ files' = files \cup {f}
           /\ IF code[w].enc
              THEN /\ tmp_path' = [tmp_path EXCEPT ![w] = Some(f)]
                   /\ pc' = [pc EXCEPT ![w] = "save_stdout"]
                   /\ UNCHANGED <<outcome, fault>>
              ELSE \* tmp.write raises: the exception leaves _perform_style_check
                   /\ outcome' = [outcome EXCEPT ![w] = Some(Raised)]
                   /\ fault' = [fault EXCEPT ![w] = "write"]
                   /\ pc' = [pc EXCEPT ![w] = "returning"]
                   /\ UNCHANGED tmp_path
    /\ UNCHANGED <<code, old_stdout, captured, emitted, sys_stdout, buffers,
                   state, ret, last, calls>>
    /\ UNCHANGED harnessVars

\* old_stdout = sys.stdout
SaveStdout(w) ==
    /\ pc[w] = "save_stdout"
    /\ old_stdout' = [old_stdout EXCEPT ![w] = sys_stdout]
    /\ pc' = [pc EXCEPT ![w] = "swap_stdout"]
    /\ UNCHANGED <<code, tmp_path, captured, emitted, outcome, fault, sys_stdout,
                   buffers, files, state, ret, last, calls>>
    /\ UNCHANGED harnessVars

\* sys.stdout = captured_output = io.StringIO()
SwapStdout(w) ==
    /\ pc[w] = "swap_stdout"
    /\ LET b == Fresh(StreamsInUse)
       IN  /\ captured' = [captured EXCEPT ![w] = b]
           /\ sys_stdout' = b
           /\ buffers' = [x \in DOMAIN buffers \cup {b} |->
                            IF x = b THEN <<>> ELSE buffers[x]]
    /\ pc' = [pc EXCEPT ![w] = "lint"]
    /\ UNCHANGED <<code, tmp_path, old_stdout, emitted, outcome, fault, files,
                   state, ret, last, calls>>
    /\ UNCHANGED harnessVars

\* style_guide.check_files([tmp_path]) printing its next diagnostic
LintEmit(w) ==
    /\ pc[w] = "lint"
    /\ emitted[w] < Len(code[w].lint)
    /\ buffers' = WriteStdout(FormatDiag(PathOf(tmp_path[w][1]),
                                         code[w].lint[emitted[w] + 1]) \o <<NL>>)
    /\ emitted' = [emitted EXCEPT ![w] = @ + 1]
    /\ UNCHANGED <<pc, code, tmp_path, old_stdout, captured, outcome, fault,
                   sys_stdout, files, state, ret, last, calls>>
    /\ UNCHANGED harnessVars

\* pycodestyle.StyleGuide(...) or check_files raising, at any point of the report
LintFail(w) ==
    /\ pc[w] = "lint"
    /\ outcome' = [outcome EXCEPT ![w] = Some(Raised)]
    /\ fault' = [fault EXCEPT ![w] = "lint"]
    /\ pc' = [pc EXCEPT ![w] = "finally"]
    /\ UNCHANGED <<code, tmp_path, old_stdout, captured, emitted, sys_stdout,
                   buffers, files, state, ret, last, calls>>
    /\ UNCHANGED harnessVars

\* sys.stdout = old_stdout, once check_files has returned
RestoreStdout(w) ==
    /\ pc[w] = "lint"
    /\ emitted[w] = Len(code[w].lint)
    /\ sys_stdout' = old_stdout[w]
    /\ pc' = [pc EXCEPT ![w] = "parse"]
    /\ UNCHANGED <<code, tmp_path, old_stdout, captured, emitted, outcome, fault,
                   buffers, files, state, ret, last, calls>>
    /\ UNCHANGED harnessVars

\* the naming violations appended for text c: none when it does not parse
NamingIssuesFor(c) ==
    IF Parse(c).kind = "ok" THEN _check_naming_conventions(Parse(c).tree) ELSE <<>>

\* the naming violations put in front of the linter's
MergeNamingFirst(out, c) == NamingIssuesFor(c) \o ParseOutput(out)

\* issues as of the scoring: the parsed output extended by the naming violations
MergeIssues(out, c) == ParseOutput(out) \o NamingIssuesFor(c)

\* from output = captured_output.getvalue() to the return statement
ParseAndScore(w) ==
    /\ pc[w] = "parse"
    /\ IF Parse(code[w]).kind \in {"ok", "SyntaxError"}
       THEN /\ outcome' = [outcome EXCEPT ![w] =
                             Some(StyleResult(MergeIssues(buffers[captured[w]], code[w])))]
            /\ UNCHANGED fault
       ELSE \* ast.parse raises something other than SyntaxError
            /\ outcome' = [outcome EXCEPT ![w] = Some(Raised)]
            /\ fault' = [fault EXCEPT ![w] = "naming"]
    /\ buffers' = [x \in DOMAIN buffers \ {captured[w]} |-> buffers[x]]
    /\ pc' = [pc EXCEPT ![w] = "finally"]
    /\ UNCHANGED <<code, tmp_path, old_stdout, captured, emitted, sys_stdout,
                   files, state, ret, last, calls>>
    /\ UNCHANGED harnessVars

\* finally: if os.path.exists(tmp_path): os.unlink(tmp_path)
Finally(w) ==
    /\ pc[w] = "finally"
    /\ files' = files \ {tmp_path[w][1]}
    /\ buffers' = [x \in DOMAIN buffers \ {captured[w]} |-> buffers[x]]
    /\ pc' = [pc EXCEPT ![w] = "returning"]
    /\ UNCHANGED <<code, tmp_path, old_stdout, captured, emitted, outcome, fault,
                   sys_stdout, state, ret, last, calls>>
    /\ UNCHANGED harnessVars

\* the except branch leaving STYLE_SCORE alone
StyleErrorStateNoScore(st) == [st EXCEPT !["STYLE_ISSUES"] = Some(<<>>)]

\* the defaults the except branch of check_code_style stores
StyleErrorState(st) ==
    [st EXCEPT !["STYLE_SCORE"] = Some(0), !["STYLE_ISSUES"] = Some(<<>>)]

StyleSuccessState(st, r) ==
    [st EXCEPT !["STYLE_SCORE"] = Some(r.score),
               !["STYLE_ISSUES"] = Some(r.issues),
               !["STYLE_ISSUE_COUNT"] = Some(r.issue_count)]

\* check_code_style after the worker thread is done: store and return the
\* result, or handle the exception
FinishCodeStyle(w) ==
    /\ pc[w] = "returning"
    /\ IF outcome[w][1].status = "raised"
       THEN /\ state' = StyleErrorState(state)
            /\ ret' = Ret("error", None, Some("Style check failed"), None, None,
                          None, Some(0), None, None)
       ELSE /\ state' = StyleSuccessState(state, outcome[w][1])
            /\ ret' = Ret("success", None, None, None, None, None,
                          Some(outcome[w][1].score), Some(outcome[w][1].issue_count),
                          Some(outcome[w][1].issues))
    /\ last' = Returned("check_code_style", code[w], w)
    /\ pc' = [pc EXCEPT ![w] = "idle"]
    /\ ResetLocals(w)
    /\ UNCHANGED <<fault, sys_stdout, buffers, files, calls>>
    /\ UNCHANGED harnessVars

StyleStep(w) ==
    \/ CreateTempFile(w)
    \/ SaveStdout(w)
    \/ SwapStdout(w)
    \/ LintEmit(w)
    \/ LintFail(w)
    \/ RestoreStdout(w)
    \/ ParseAndScore(w)
    \/ Finally(w)
    \/ FinishCodeStyle(w)

(***************************************************************************)
(* SpecExtract and SpecNaming: the two tree walks applied to every bounded *)
(* tree.                                                                   *)
(***************************************************************************)
NameChars == {"a", "A", "_"}

RECURSIVE NamesUpTo(_)
NamesUpTo(n) ==
    IF n = 0 THEN {}
    ELSE LET shorter == NamesUpTo(n - 1)
         IN  shorter \cup { <<c>> : c \in NameChars }
             \cup { Append(s, c) : s \in shorter, c \in NameChars }

\* identifiers: non-empty
Names == NamesUpTo(MaxNameLen)

ExtractNames == { <<"a">> }

ScoreIdle == issues = <<>> /\ score = None /\ prevScore = None /\ added = 0

ExtractInit ==
    /\ tree \in TreesOf(MaxNodes, ExtractNames, 1..MaxAliases)
    /\ analysis = None
    /\ naming = None
    /\ ScoreIdle
    /\ SessionInit

Extract ==
    /\ analysis = None
    /\ analysis' = Some(_extract_code_structure(tree))
    /\ UNCHANGED <<tree, naming, scoreVars, sessionVars>>

SpecExtract == ExtractInit /\ [][Extract]_vars

NamingInit ==
    /\ tree \in TreesOf(MaxNamedNodes, Names, {1})
    /\ analysis = None
    /\ naming = None
    /\ ScoreIdle
    /\ SessionInit

CheckNaming ==
    /\ naming = None
    /\ naming' = Some(_check_naming_conventions(tree))
    /\ UNCHANGED <<tree, analysis, scoreVars, sessionVars>>

SpecNaming == NamingInit /\ [][CheckNaming]_vars

(***************************************************************************)
(* SpecScore: _calculate_style_score applied to bounded violation lists.   *)
(***************************************************************************)
\* violation codes: one per known prefix, unknown prefixes, and short codes
ScoreCodes ==
    { <<"E","1","0","1">>, <<"E","2","3","1">>, <<"E","3","0","2">>,
      <<"E","4","0","1">>, <<"E","5","0","2">>, <<"E","7","0","1">>,
      <<"E","9","9","9">>, <<"W","2","9","1">>, <<"W","3","9","1">>,
      <<"W","5","0","4">>, <<"N","8","0","2">>, <<"W","6","0","5">>,
      <<"E","0","0","0">>, <<"E">>, <<>> }

Issue(cd) == [line |-> 1, column |-> 1, code |-> cd, message |-> cd]

\* a run of one code, optionally preceded by one violation of another code
ScoreInputs ==
    { Repeat(Issue(c), k) : c \in ScoreCodes, k \in 0..MaxRun }
    \cup { <<Issue(d)>> \o Repeat(Issue(c), k) :
             d \in ScoreCodes, c \in ScoreCodes, k \in {0, 1, MaxRun} }

ScoreInit ==
    /\ issues \in ScoreInputs
    /\ score = None
    /\ prevScore = None
    /\ added = 0
    /\ tree = <<>> /\ analysis = None /\ naming = None
    /\ SessionInit

CalcScore ==
    /\ score = None
    /\ score' = Some(_calculate_style_score(issues))
    /\ UNCHANGED <<issues, prevScore, added, treeVars, sessionVars>>

AddViolation ==
    /\ score # None
    /\ added < MaxAdded
    /\ \E c \in ScoreCodes :
         /\ issues' = Append(issues, Issue(c))
         /\ score' = Some(_calculate_style_score(issues'))
    /\ prevScore' = score
    /\ added' = added + 1
    /\ UNCHANGED <<treeVars, sessionVars>>

ScoreNext == CalcScore \/ AddViolation

SpecScore == ScoreInit /\ [][ScoreNext]_vars

(***************************************************************************)
(* Spec: one session in which the public operations are called one after   *)
(* the other.  SpecConc: two check_code_style calls whose worker threads    *)
(* overlap.                                                                *)
(***************************************************************************)
W605 == <<"W","6","0","5">>
E231 == <<"E","2","3","1">>
E101 == <<"E","1","0","1">>
W291 == <<"W","2","9","1">>

\* a class with a method and a function after it, two of the names against the policy
NamedTree ==
    << Node(ClassDef, 0, <<"a", "_">>, 0),
       Node(FunctionDef, 1, <<"A", "a">>, 0),
       Node(FunctionDef, 0, <<"a">>, 0) >>

SessionParses == { ParseOk(<<>>), ParseOk(NamedTree), ParseSyntaxError(1, 7), ParseValueError }

\* k diagnostics of the default weight, one per line
LintRun(k) == [i \in 1..k |-> Diag(i, 1, W605, <<"m">>)]

SessionLints ==
    { <<>>,
      << Diag(1, 5, E231, <<"a", ":", "b">>) >>,
      << Diag(2, 1, E101, <<"m">>), Diag(1, 3, W291, <<"m", " ", "m">>) >>,
      LintRun(TruncLimit + 1),
      LintRun(MaxLint) }

SessionTexts ==
    { Text(FALSE, TRUE, 2, p, l) : p \in SessionParses, l \in SessionLints }
    \cup { EmptyText }
    \cup { Text(FALSE, FALSE, 1, ParseValueError, <<>>) }

ConcTexts ==
    { Text(FALSE, TRUE, 1, ParseOk(<<>>), <<>>),
      Text(FALSE, TRUE, 1, ParseOk(<<>>), << Diag(1, 5, E231, <<"m">>) >>),
      Text(FALSE, TRUE, 2, ParseOk(NamedTree),
           << Diag(2, 1, E101, <<"m">>), Diag(1, 3, W291, <<"m">>) >>) }

HarnessIdle ==
    /\ ScoreIdle
    /\ tree = <<>> /\ analysis = None /\ naming = None

Init == SessionInit /\ HarnessIdle

Next ==
    \/ \E c \in SessionTexts : AnalyzeCodeStructure(c)
    \/ \E c \in SessionTexts : CheckCodeStyle(1, c)
    \/ StyleStep(1)

Spec == Init /\ [][Next]_vars

ConcNext ==
    \/ \E w \in Workers, c \in ConcTexts : CheckCodeStyle(w, c)
    \/ \E w \in Workers : StyleStep(w)

SpecConc == Init /\ [][ConcNext]_vars

(***************************************************************************)
(* Claims about the scorer (SpecScore).                                    *)
(***************************************************************************)
\* the deduction table as the specification states it, by the first two characters
C1_Weight(cd) ==
    LET p == SubSeq(cd, 1, Min(2, Len(cd)))
    IN  CASE p \in { <<"E","1">>, <<"E","9">> } -> 10
          [] p \in { <<"E","2">>, <<"W","5">> } -> 3
          [] p \in { <<"E","3">>, <<"E","5">> } -> 5
          [] p = <<"E","4">> -> 8
          [] p \in { <<"E","7">>, <<"N","8">> } -> 7
          [] p \in { <<"W","2">>, <<"W","3">> } -> 2
          [] OTHER -> 3

RECURSIVE C1_Total(_)
C1_Total(iss) ==
    IF iss = <<>> THEN 0 ELSE C1_Weight(iss[Len(iss)].code) + C1_Total(SubSeq(iss, 1, Len(iss) - 1))

C1_Expected(iss) ==
    LET d == IF C1_Total(iss) < 100 THEN C1_Total(iss) ELSE 100
    IN  IF 100 - d > 0 THEN 100 - d ELSE 0

\* C1: the score of every violation list is max(0, 100 - min(total_deduction, 100))
\* with total_deduction the sum of the table's weights; it lies in 0..100, is 100
\* for the empty list and does not increase when a violation is added.
C1_ScoreFormula ==
    score # None =>
        /\ score[1] = C1_Expected(issues)
        /\ score[1] \in 0..100
        /\ (issues = <<>> => score[1] = 100)
        /\ (prevScore # None => score[1] <= prevScore[1])

\* a list whose deduction exceeds 100 was scored 0 after one more violation was added
C1_Witness ==
    /\ score = Some(0)
    /\ prevScore # None
    /\ C1_Total(issues) > 100
    /\ \E k \in 1..Len(issues) : Len(issues[k].code) < 2

(***************************************************************************)
(* Claims about the extractor (SpecExtract).                               *)
(***************************************************************************)
FunctionNodes(t) == { i \in 1..Len(t) : t[i].kind \in {FunctionDef, AsyncFunctionDef} }
ImportNodes(t) == { i \in 1..Len(t) : t[i].kind \in {Import, ImportFrom} }

RECURSIVE Depth(_, _)
\* the number of enclosing nodes of statement i
Depth(t, i) == IF i = 0 THEN 0 ELSE 1 + Depth(t, t[i].parent)

\* C7: exactly one FunctionInfo per function definition, synchronous or
\* asynchronous, at any depth, with is_async true exactly for the asynchronous
\* ones; function_count is the number of function definitions.
C7_EveryFunctionRecorded ==
    analysis # None =>
        LET a == analysis[1]
        IN  /\ a.metrics.function_count = Cardinality(FunctionNodes(tree))
            /\ \A i \in FunctionNodes(tree) :
                 /\ Cardinality({ k \in 1..Len(a.functions) : a.functions[k].lineno = i }) = 1
                 /\ \A k \in 1..Len(a.functions) :
                      a.functions[k].lineno = i =>
                        a.functions[k].is_async = (tree[i].kind = AsyncFunctionDef)

\* C9 as stated: the functions sequence is in source order, nested or not.
C9_SourceOrder ==
    analysis # None =>
        LET f == analysis[1].functions
        IN  \A j, k \in 1..Len(f) : j < k => f[j].lineno < f[k].lineno

\* C9 amended: the functions sequence is in breadth-first order: a recorded
\* definition at a smaller depth of the tree comes before every deeper one, and
\* definitions at the same depth are in source order.
C9_BreadthFirstOrder ==
    analysis # None =>
        LET f == analysis[1].functions
        IN  \A j, k \in 1..Len(f) :
              j < k =>
                \/ Depth(tree, f[j].lineno) < Depth(tree, f[k].lineno)
                \/ /\ Depth(tree, f[j].lineno) = Depth(tree, f[k].lineno)
                   /\ f[j].lineno < f[k].lineno

\* a method on an earlier line is listed after a top-level function on a later line
C9_Witness ==
    /\ analysis # None
    /\ \E j, k \in 1..Len(analysis[1].functions) :
         /\ j < k
         /\ analysis[1].functions[j].lineno > analysis[1].functions[k].lineno
         /\ tree[analysis[1].functions[k].lineno].parent # 0
         /\ tree[tree[analysis[1].functions[k].lineno].parent].kind = ClassDef

\* C10 as stated: one ImportInfo per import statement of either kind.
C10_OnePerStatement ==
    analysis # None =>
        /\ analysis[1].metrics.import_count = Cardinality(ImportNodes(tree))
        /\ \A i \in ImportNodes(tree) :
             Cardinality({ k \in 1..Len(analysis[1].imports) :
                             analysis[1].imports[k].lineno = i }) = 1

RECURSIVE C10_ExpectedCount(_, _)
\* over the import statements S of t: the names of the plain ones, one per from-import
C10_ExpectedCount(t, S) ==
    IF S = {} THEN 0
    ELSE LET i == CHOOSE y \in S : TRUE
         IN  (IF t[i].kind = Import THEN t[i].nnames ELSE 1)
             + C10_ExpectedCount(t, S \ {i})

\* C10 amended: a plain import yields one ImportInfo per name it lists, each
\* holding that one name; a from-import yields one ImportInfo holding all its
\* names; import_count is the sum of the two.
C10_OnePerAlias ==
    analysis # None =>
        LET imps == analysis[1].imports
            of(i) == { k \in 1..Len(imps) : imps[k].lineno = i }
        IN  /\ \A i \in ImportNodes(tree) :
                 IF tree[i].kind = Import
                 THEN /\ Cardinality(of(i)) = tree[i].nnames
                      /\ \A k \in of(i) : imps[k].type = "import" /\ Len(imps[k].names) = 1
                      /\ { imps[k].names[1] : k \in of(i) } = { <<i, n>> : n \in 1..tree[i].nnames }
                 ELSE /\ Cardinality(of(i)) = 1
                      /\ \A k \in of(i) :
                           /\ imps[k].type = "from_import"
                           /\ imps[k].names = [n \in 1..tree[i].nnames |-> <<i, n>>]
            /\ analysis[1].metrics.import_count =
                 C10_ExpectedCount(tree, ImportNodes(tree))
            /\ \A k \in 1..Len(imps) : imps[k].lineno \in ImportNodes(tree)

\* "import a, b" and "from m import a, b" in one source: three ImportInfo records
C10_Witness ==
    /\ analysis # None
    /\ \E i, j \in 1..Len(tree) :
         /\ tree[i].kind = Import /\ tree[i].nnames = 2
         /\ tree[j].kind = ImportFrom /\ tree[j].nnames = 2
    /\ analysis[1].metrics.import_count = 3

(***************************************************************************)
(* Claims about the naming checker (SpecNaming).                           *)
(***************************************************************************)
C8_IsLowerCase(name) == \A k \in 1..Len(name) : name[k] # "A"
C8_BadFunctionName(name) == name[1] # "_" /\ ~C8_IsLowerCase(name)
C8_BadClassName(name) == name[1] # "A" \/ (\E k \in 1..Len(name) : name[k] = "_")

\* C8: exactly one N802 per function definition whose name does not begin with
\* an underscore and is not entirely lowercase, exactly one N801 per class
\* definition whose name does not start uppercase or contains an underscore,
\* and nothing else.
C8_NamingPolicy ==
    naming # None =>
        LET n == naming[1]
            at(i, cd) == { k \in 1..Len(n) : n[k].line = i /\ n[k].code = cd }
        IN  /\ \A i \in 1..Len(tree) :
                 /\ Cardinality(at(i, N802)) =
                      (IF tree[i].kind \in {FunctionDef, AsyncFunctionDef}
                          /\ C8_BadFunctionName(tree[i].name) THEN 1 ELSE 0)
                 /\ Cardinality(at(i, N801)) =
                      (IF tree[i].kind = ClassDef /\ C8_BadClassName(tree[i].name)
                       THEN 1 ELSE 0)
            /\ \A k \in 1..Len(n) : n[k].code \in {N801, N802} /\ n[k].line \in 1..Len(tree)

(***************************************************************************)
(* Claims about check_code_style and analyze_code_structure (Spec) and     *)
(* about overlapping style checks (SpecConc).                              *)
(***************************************************************************)
\* line, column and code of a violation
C2_Key(v) == [line |-> v.line, column |-> v.column, code |-> v.code]

\* the linter's violations for text c in the order emitted, then the naming
\* violations in traversal order
C2_Merged(c) ==
    [i \in 1..Len(c.lint) |->
        [line |-> c.lint[i].row, column |-> c.lint[i].col, code |-> c.lint[i].code]]
    \o [i \in 1..Len(NamingIssuesFor(c)) |-> C2_Key(NamingIssuesFor(c)[i])]

\* C2: a successful style check reports as issue_count the length of the merged
\* sequence (linter violations as emitted, then naming violations) and as issues
\* its first min(10, issue_count) elements.
C2_CountAndPrefix ==
    (last.op = "check_code_style" /\ ret.status = "success") =>
        LET merged == C2_Merged(last.code)
            n == IF Len(merged) < 10 THEN Len(merged) ELSE 10
        IN  /\ ret.issue_count = Some(Len(merged))
            /\ Len(ret.issues[1]) = n
            /\ \A k \in 1..n : C2_Key(ret.issues[1][k]) = merged[k]

\* 15 violations of the default weight: issue_count 15, 10 issues, score 55
C2_Witness ==
    /\ last.op = "check_code_style"
    /\ ret.status = "success"
    /\ Len(last.code.lint) = 15
    /\ ret.issue_count = Some(15)
    /\ Len(ret.issues[1]) = 10
    /\ ret.score = Some(55)

\* C3: no temporary file of a style check exists once the call has ended,
\* whichever way it ended.
C3_TempFileRemoved == (\A w \in Workers : pc[w] = "idle") => files = {}

\* C4: a style check whose linter invocation failed returns status error with
\* score 0 and a message, and has stored style score 0 in the session state.
C4_LinterFailureReported ==
    \A w \in Workers :
        (last.op = "check_code_style" /\ last.worker = w /\ pc[w] = "idle"
            /\ fault[w] = "lint") =>
            /\ ret.status = "error"
            /\ ret.score = Some(0)
            /\ ret.message # None
            /\ state["STYLE_SCORE"] = Some(0)

\* a call whose linter failed has returned, after an earlier call stored another score
C4_Witness ==
    /\ last.op = "check_code_style"
    /\ last.n = 2
    /\ pc[last.worker] = "idle"
    /\ fault[last.worker] = "lint"
    /\ ret.status = "error"
    /\ state["STYLE_ISSUE_COUNT"] # None

\* C5: analyze_code_structure on a text that fails to parse returns status error,
\* error_type syntax, the line and offset of the error, no analysis and no score;
\* it stores the text under CODE_TO_REVIEW and leaves CODE_ANALYSIS and
\* CODE_LINE_COUNT as they were.
C5_SyntaxErrorReported ==
    [][ (/\ last'.n # last.n
         /\ last'.op = "analyze_code_structure"
         /\ ~last'.code.empty
         /\ Parse(last'.code).kind = "SyntaxError") =>
            /\ ret'.status = "error"
            /\ ret'.error_type = Some("syntax")
            /\ ret'.line = Some(Parse(last'.code).lineno)
            /\ ret'.offset = Some(Parse(last'.code).offset)
            /\ ret'.analysis = None
            /\ ret'.score = None
            /\ state'["CODE_TO_REVIEW"] = Some(last'.code)
            /\ state'["CODE_ANALYSIS"] = state["CODE_ANALYSIS"]
            /\ state'["CODE_LINE_COUNT"] = state["CODE_LINE_COUNT"] ]_vars

\* a syntax error reported for the request that follows a successful analysis:
\* the unparsed text is stored, the earlier analysis and line count are untouched
C5_Witness ==
    /\ last.op = "analyze_code_structure"
    /\ last.n = 2
    /\ Parse(last.code).kind = "SyntaxError"
    /\ ret.error_type = Some("syntax")
    /\ ret.line = Some(1) /\ ret.offset = Some(7)
    /\ ret.analysis = None
    /\ state["CODE_TO_REVIEW"] = Some(last.code)
    /\ state["SYNTAX_ERROR"] # None
    /\ state["CODE_ANALYSIS"] # None
    /\ state["CODE_LINE_COUNT"] # None

RECURSIVE C6_Report(_, _)
\* what the linter prints for diagnostics ds of the file at path
C6_Report(path, ds) ==
    IF ds = <<>> THEN <<>>
    ELSE FormatDiag(path, Head(ds)) \o <<NL>> \o C6_Report(path, Tail(ds))

\* the result of a call on text c that runs alone
C6_Alone(c) == StyleResult(MergeIssues(C6_Report(PathOf(1), c.lint), c))

\* C6: each of two overlapping style checks returns what its text yields when
\* the call runs alone.
C6_CallsIsolated ==
    \A w \in Workers :
        (pc[w] = "returning" /\ outcome[w][1].status = "success") =>
            outcome[w][1] = C6_Alone(code[w])

\* C11: once no style check is running, whatever way the calls so far ended,
\* sys.stdout is the stream that was installed before the first call.
C11_StdoutRestored ==
    (\A w \in Workers : pc[w] = "idle") => sys_stdout = RealStdout

\* C12: the session state is consistent with the text it holds: a stored
\* CODE_ANALYSIS is the analysis of the text under CODE_TO_REVIEW, and
\* SYNTAX_ERROR is stored only if that text failed to parse.
C12_StateConsistent ==
    /\ state["CODE_ANALYSIS"] # None =>
         /\ state["CODE_TO_REVIEW"] # None
         /\ Parse(state["CODE_TO_REVIEW"][1]).kind = "ok"
         /\ state["CODE_ANALYSIS"] = Some(AnalysisFor(state["CODE_TO_REVIEW"][1]))
    /\ state["SYNTAX_ERROR"] # None =>
         /\ state["CODE_TO_REVIEW"] # None
         /\ Parse(state["CODE_TO_REVIEW"][1]).kind = "SyntaxError"

====
